---------------------------- MODULE Spec2Model ----------------------------
(***************************************************************************)
(* Gravity Guy: the decision-level environment GGEnv (src/env/gg_env_v2.py) *)
(* over the level generator (src/game/level.py), the player physics and     *)
(* collision resolver (src/game/player.py) and the observation encoder      *)
(* (src/env/observation_v2.py).                                             *)
(*                                                                         *)
(* Units.  All quantities are integers in the unit in which the code's      *)
(* float arithmetic is exact for dt = 1/60 s:                               *)
(*   player y          half pixels      (vy*dt is a multiple of 0.5 px)     *)
(*   player vy         G_ABS*dt = 30 px/s                                   *)
(*   timers            1/300 s          (dt = 5, 0.18 s = 54, 0.08 s = 24)  *)
(*   distance_px       1/6 px           (SCROLL_PX_PER_S*dt = 25/6 px)      *)
(*   rectangles        pixels           (pygame.Rect holds ints)            *)
(*   random()          RngMod-ths       (one uniform variate per call)      *)
(*   move_time         0.025 rad        (dt * MOVING_PLATFORM_SPEED)        *)
(* Sums of floats are taken to be exact (no rounding error is modelled).    *)
(*                                                                         *)
(* random.Random(seed) is modelled by a deterministic congruential          *)
(* generator: the seed fixes the whole stream, each call of random(),       *)
(* uniform(), choice() or randint() consumes one variate.  math.sin is read *)
(* from a table on the 0.025 rad grid with a period of 251 ticks.           *)
(***************************************************************************)
EXTENDS Integers, Sequences, FiniteSets, TLC

\* env: the session; twin, pending, agree: a second session replaying the
\* calls of the first; process_rng: the generator of the random module, one
\* per process; solo: the second session in a process of its own.
VARIABLES env, twin, pending, agree, process_rng, solo

vars == <<env, twin, pending, agree, process_rng, solo>>

---------------------------------------------------------------------------
(* Bounds of the model (inputs of the constructor and caps on exploration) *)

\* GGEnv(frame_skip=...): physics sub-steps per decision (the default).
FrameSkip == 4
\* GGEnv(time_limit_seconds=...): the built-in truncation horizon, seconds.
TimeLimitSeconds == 7
\* Cap on step calls between two resets (the code has none).
ExtraDecisions == 5
\* Seeds passed to reset(seed=...), and drawn by LevelGen when seed is None.
Seeds == {3, 7, 10}

---------------------------------------------------------------------------
(* src/game/config.py *)

WIDTH == 960
HEIGHT == 540
SIM_FPS == 60
SCROLL_PX_PER_S == 250
G_ABS == 1800
PLAYER_X == 220
PLAYER_W == 32
PLAYER_H == 32
MAX_VY == 1200
PLATFORM_THICKNESS == 24
LANE_TOP_Y == 120
LANE_BOT_Y == HEIGHT - 120
SEGMENT_MIN_W == 160
SEGMENT_MAX_W == 360
GAP_MIN_W == 120
GAP_MAX_W == 260
\* MOVING_PLATFORM_RANGE = 60.0 px; MOVING_PLATFORM_CHANCE = 0.3, in percent.
MOVING_PLATFORM_RANGE == 60
MOVING_PLATFORM_CHANCE == 30
\* JUMP_COOLDOWN_S = 0.18 s, in 1/300 s.
JUMP_COOLDOWN_S == 54

\* Values level.py and observation_v2.py import from config.py; this version
\* of config.py does not define them.  SPIKE_CHANCE in percent ("25% de
\* chance d'ajouter 1-3 pics").
SPIKE_CHANCE == 25
SPIKE_MIN_PER_PLATFORM == 1
SPIKE_MAX_PER_PLATFORM == 3
SPIKE_HEIGHT == 24
SPIKE_BASE == 24
SPIKE_MARGIN_X == 16
SPIKE_MIN_SPACING == 24

\* One physics tick dt = 1/SIM_FPS, in 1/300 s.
Dt == 300 \div SIM_FPS
\* G_ABS * dt: the unit of vy; MAX_VY in that unit.
VyUnit == G_ABS \div SIM_FPS
MaxVk == MAX_VY \div VyUnit
\* dx = int(SCROLL_PX_PER_S * dt): the scroll of a rectangle per tick, px.
ScrollDx == SCROLL_PX_PER_S \div SIM_FPS
\* SCROLL_PX_PER_S * dt in 1/6 px: what distance_px gains per sub-step.
DistPerTick == (6 * SCROLL_PX_PER_S) \div SIM_FPS

Max(a, b) == IF a >= b THEN a ELSE b
Min(a, b) == IF a <= b THEN a ELSE b
Abs(a) == IF a >= 0 THEN a ELSE -a

---------------------------------------------------------------------------
(* random.Random(seed): the stand-in generator *)

RngMod == 65536
RngMul == 25173
RngInc == 13849

\* The generator's state after one more call.
RngNext(s) == (RngMul * s + RngInc) % RngMod
\* random.Random(seed)
RngSeed(seed) == seed % RngMod
\* int(rng.uniform(lo, hi)) for the variate s / RngMod
Uniform(s, lo, hi) == lo + ((hi - lo) * s) \div RngMod
\* rng.randint(a, b)
RandInt(s, a, b) == a + (s * (b - a + 1)) \div RngMod

---------------------------------------------------------------------------
(* math.sin on the 0.025 rad grid: floor(60 * sin(0.025 * k)), k = 0..250 *)

SinPeriod == 251
SinTable == <<
    0, 1, 2, 4, 5, 7, 8, 10, 11, 13, 14, 16, 17, 19, 20, 21, 23, 24, 26, 27, 28,
    30, 31, 32, 33, 35, 36, 37, 38, 39, 40, 41, 43, 44, 45, 46, 46, 47, 48, 49,
    50, 51, 52, 52, 53, 54, 54, 55, 55, 56, 56, 57, 57, 58, 58, 58, 59, 59, 59,
    59, 59, 59, 59, 59, 59, 59, 59, 59, 59, 59, 59, 58, 58, 58, 57, 57, 56, 56,
    55, 55, 54, 53, 53, 52, 51, 51, 50, 49, 48, 47, 46, 45, 44, 43, 42, 41, 40,
    39, 38, 37, 35, 34, 33, 32, 30, 29, 28, 26, 25, 24, 22, 21, 20, 18, 17, 15,
    14, 12, 11, 9, 8, 6, 5, 3, 2, 0, -1, -3, -4, -5, -7, -8, -10, -11, -13, -14,
    -16, -17, -19, -20, -22, -23, -24, -26, -27, -28, -30, -31, -32, -34, -35,
    -36, -37, -38, -40, -41, -42, -43, -44, -45, -46, -47, -48, -49, -50, -50,
    -51, -52, -53, -54, -54, -55, -55, -56, -57, -57, -58, -58, -58, -59, -59,
    -59, -60, -60, -60, -60, -60, -60, -60, -60, -60, -60, -60, -60, -60, -60,
    -59, -59, -59, -58, -58, -58, -57, -57, -56, -55, -55, -54, -54, -53, -52,
    -51, -50, -50, -49, -48, -47, -46, -45, -44, -43, -42, -41, -40, -38, -37,
    -36, -35, -34, -32, -31, -30, -28, -27, -26, -24, -23, -22, -20, -19, -17,
    -16, -14, -13, -11, -10, -8, -7, -5, -4, -2
    >>
\* An oscillation of twice the configured amplitude.
SinOffsetUnbounded(k) == 2 * SinTable[(k % SinPeriod) + 1]
\* int(original_y + move_range * sin(move_time)) - original_y
SinOffset(k) == SinTable[(k % SinPeriod) + 1]
\* move_time = rng.random() * 6.28, on the grid: floor(6.28 * s / (0.025 * RngMod))
PhaseOf(s) == (s * 1256) \div (5 * RngMod)

---------------------------------------------------------------------------
(* src/game/level.py: Platform, Spike, LevelGen *)

\* pygame.Rect sides of a platform record.
Left(p) == p.x
Right(p) == p.x + p.w
Top(p) == p.y
Bottom(p) == p.y + PLATFORM_THICKNESS

\* Platform.update_movement after rect.x -= dx (level.py 299-302).
ScrollPlatform(p) ==
    IF p.platform_type = "moving"
    THEN [p EXCEPT !.x = @ - ScrollDx,
                   !.move_time = @ + 1,
                   !.y = p.original_y + SinOffset(p.move_time + 1)]
    ELSE [p EXCEPT !.x = @ - ScrollDx]

\* The decision without the cap on consecutive oscillating platforms.
ShouldMakeMovingPlatformUncapped(L) ==
    <<~(RngNext(L.rng) * 100 > MOVING_PLATFORM_CHANCE * RngMod),
      [L EXCEPT !.rng = RngNext(L.rng)]>>

\* LevelGen._should_make_moving_platform: <<decision, level after the draw>>.
ShouldMakeMovingPlatform(L) ==
    IF L.consecutive_moving >= 2
    THEN <<FALSE, L>>
    ELSE LET s == RngNext(L.rng)
         IN  <<~(s * 100 > MOVING_PLATFORM_CHANCE * RngMod), [L EXCEPT !.rng = s]>>

\* The static/moving decision of _create_platform (level.py 152-156):
\* <<is moving, level after the draw>>.
MovingDecisionIgnoringForce(L, force_static) == ShouldMakeMovingPlatform(L)
MovingDecision(L, force_static) ==
    IF force_static THEN <<FALSE, L>> ELSE ShouldMakeMovingPlatform(L)

\* The Platform built by _create_platform once the decision `dec` is taken
\* (level.py 150-193): [plat, level].
MakePlatform(dec, x, lane, w) ==
    LET y0 == IF lane = "top" THEN LANE_TOP_Y - PLATFORM_THICKNESS ELSE LANE_BOT_Y
        L1 == dec[2]
        id == L1.next_id + 1
        max_a == ((LANE_BOT_Y - LANE_TOP_Y) * 6) \div 10
        max_b == IF lane = "top" THEN (LANE_TOP_Y * 8) \div 10
                                 ELSE ((HEIGHT - LANE_BOT_Y) * 8) \div 10
        safe_range == Min(MOVING_PLATFORM_RANGE, Min(max_a, max_b))
    IN  IF dec[1]
        THEN LET s == RngNext(L1.rng)
             IN [plat |-> [id |-> id, x |-> x, y |-> y0, w |-> w, lane |-> lane,
                           platform_type |-> "moving", move_range |-> safe_range,
                           move_time |-> PhaseOf(s), original_y |-> y0],
                 level |-> [L1 EXCEPT !.rng = s, !.next_id = id,
                                      !.consecutive_moving = @ + 1]]
        ELSE [plat |-> [id |-> id, x |-> x, y |-> y0, w |-> w, lane |-> lane,
                        platform_type |-> "static", move_range |-> 0,
                        move_time |-> 0, original_y |-> y0],
              level |-> [L1 EXCEPT !.next_id = id, !.consecutive_moving = 0]]

\* LevelGen._create_platform: [plat, level].
CreatePlatform(L, x, lane, w, force_static) ==
    MakePlatform(MovingDecision(L, force_static), x, lane, w)

\* A placement loop that accepts every drawn centre.
RECURSIVE PlaceSpikesUnspaced(_, _, _, _, _, _)
PlaceSpikesUnspaced(s, positions, attempts, count, usable_left, usable_right) ==
    IF Len(positions) < count /\ attempts < 50
    THEN PlaceSpikesUnspaced(RngNext(s),
                             Append(positions,
                                    RandInt(RngNext(s), usable_left, usable_right)),
                             attempts + 1, count, usable_left, usable_right)
    ELSE <<positions, s>>

\* The placement loop of _maybe_add_spikes_for_platform (level.py 225-232):
\* <<positions, generator state>>.
RECURSIVE PlaceSpikes(_, _, _, _, _, _)
PlaceSpikes(s, positions, attempts, count, usable_left, usable_right) ==
    IF Len(positions) < count /\ attempts < 50
    THEN LET s1 == RngNext(s)
             cx_world == RandInt(s1, usable_left, usable_right)
             free == \A i \in 1..Len(positions) :
                        Abs(cx_world - positions[i]) >= SPIKE_BASE + SPIKE_MIN_SPACING
         IN  PlaceSpikes(s1, IF free THEN Append(positions, cx_world) ELSE positions,
                         attempts + 1, count, usable_left, usable_right)
    ELSE <<positions, s>>

\* LevelGen._maybe_add_spikes_for_platform: the level after the call.
MaybeAddSpikesForPlatform(L, plat) ==
    IF Right(plat) <= WIDTH
    THEN L
    ELSE LET s1 == RngNext(L.rng)
             L1 == [L EXCEPT !.rng = s1]
             half_base == SPIKE_BASE \div 2
             usable_left == Left(plat) + Max(SPIKE_MARGIN_X, half_base)
             usable_right == Right(plat) - Max(SPIKE_MARGIN_X, half_base)
             usable_w == Max(0, usable_right - usable_left)
             min_center_dist == SPIKE_BASE + SPIKE_MIN_SPACING
             max_possible == 1 + ((usable_w - SPIKE_BASE) \div min_center_dist)
         IN  IF s1 * 100 > SPIKE_CHANCE * RngMod THEN L1
             ELSE IF usable_w < SPIKE_BASE THEN L1
             ELSE IF max_possible <= 0 THEN L1
             ELSE LET s2 == RngNext(s1)
                      desired == RandInt(s2, SPIKE_MIN_PER_PLATFORM, SPIKE_MAX_PER_PLATFORM)
                      count == Min(desired, max_possible)
                      placed == PlaceSpikes(s2, <<>>, 0, count, usable_left, usable_right)
                      new == [i \in 1..Len(placed[1]) |->
                                [platform |-> plat.id, lane |-> plat.lane,
                                 local_x |-> placed[1][i] - Left(plat)]]
                  IN  [L1 EXCEPT !.rng = placed[2], !.spikes = @ \o new]

\* A creation hook that treats every platform as a runtime platform.
OnPlatformCreatedIgnoringSafe(L, plat, safe) == MaybeAddSpikesForPlatform(L, plat)

\* LevelGen._on_platform_created
OnPlatformCreated(L, plat, safe) ==
    IF safe THEN L ELSE MaybeAddSpikesForPlatform(L, plat)

\* LevelGen._generate_segment_pair: [platforms, w, level].  The level's pairs
\* log gains one entry: the kinds of the two platforms and the value of
\* consecutive_moving when the pair was started.
PairOf(L, w, force_one_static, top, bot) ==
    [platforms |-> <<top.plat, bot.plat>>, w |-> w,
     level |-> [bot.level EXCEPT !.pairs = Append(@,
                   [top |-> top.plat.platform_type, bot |-> bot.plat.platform_type,
                    counter |-> L.consecutive_moving, forced |-> force_one_static,
                    safe |-> FALSE,
                    in_gap |-> L.gap_from <= top.plat.x /\ top.plat.x < L.gap_to,
                    after_gap |-> L.gap_to > L.gap_from,
                    counter_top |-> top.level.consecutive_moving,
                    counter_bot |-> bot.level.consecutive_moving]),
                !.gap_from = 0, !.gap_to = 0]]
PairAfterTop(L, x, w, force_one_static, static_lane, top) ==
    PairOf(L, w, force_one_static, top,
           CreatePlatform(top.level, x, "bot", w,
                          force_one_static /\ static_lane = "bot"))
GenerateSegmentPair(L, x) ==
    LET s1 == RngNext(L.rng)
        w == Uniform(s1, SEGMENT_MIN_W, SEGMENT_MAX_W)
        L1 == [L EXCEPT !.rng = s1]
        s2 == RngNext(s1)
        counted == L1.consecutive_moving > 0
        force_one_static == counted \/ (s2 * 10 < 7 * RngMod)
        L2 == IF counted THEN L1 ELSE [L1 EXCEPT !.rng = s2]
        s3 == RngNext(L2.rng)
        static_lane == IF (s3 * 2) \div RngMod = 0 THEN "top" ELSE "bot"
        L3 == IF force_one_static THEN [L2 EXCEPT !.rng = s3] ELSE L2
    IN  PairAfterTop(L, x, w, force_one_static, static_lane,
                     CreatePlatform(L3, x, "top", w,
                                    force_one_static /\ static_lane = "top"))

\* LevelGen._generate_gap: [platforms, w, level].
GenerateGap(L, x) ==
    LET s1 == RngNext(L.rng)
    IN  [platforms |-> <<>>, w |-> Uniform(s1, GAP_MIN_W, GAP_MAX_W),
         level |-> [L EXCEPT !.rng = s1]]

\* The generation loop of update_and_generate (level.py 317-329).
RECURSIVE Generate(_, _)
\* A pair was drawn (level.py 320-325): append it, let spikes attach, go on.
GenerateAfterPair(g, target_x) ==
    Generate(OnPlatformCreated(
                 OnPlatformCreated([g.level EXCEPT !.platforms = @ \o g.platforms],
                                   g.platforms[1], FALSE),
                 g.platforms[2], FALSE),
             target_x + g.w)
\* A gap was drawn (level.py 326-329).
GenerateAfterGap(g, target_x) ==
    Generate([g.level EXCEPT !.consecutive_moving = 0,
                             !.gap_from = target_x, !.gap_to = target_x + g.w],
             target_x + g.w)
Generate(L, target_x) ==
    IF 2 * target_x < 3 * WIDTH
    THEN LET s1 == RngNext(L.rng)
             L1 == [L EXCEPT !.rng = s1]
         IN  IF s1 * 100 < 65 * RngMod
             THEN GenerateAfterPair(GenerateSegmentPair(L1, target_x), target_x)
             ELSE GenerateAfterGap(GenerateGap(L1, target_x), target_x)
    ELSE L

\* max((p.rect.right for p in platforms), default=0)
RECURSIVE RightEdge(_, _)
RightEdge(platforms, i) ==
    IF i > Len(platforms) THEN 0
    ELSE Max(Right(platforms[i]), RightEdge(platforms, i + 1))

\* A clean-up that drops no spike.
LiveSpikesAll(spikes, kept) == spikes

\* The spikes update_and_generate keeps (level.py 307-312): those whose
\* platform object is one of the kept platforms.
LiveSpikes(spikes, kept) ==
    SelectSeq(spikes, LAMBDA sp : sp.platform \in {kept[i].id : i \in 1..Len(kept)})

\* LevelGen.update_and_generate(dt): one tick of the level.  retired_spikes
\* counts the spikes the clean-up has dropped since the level was built.
UpdateAndGenerate(L) ==
    LET scrolled == [i \in 1..Len(L.platforms) |-> ScrollPlatform(L.platforms[i])]
        kept == SelectSeq(scrolled, LAMBDA p : Right(p) > -200)
        live == LiveSpikes(L.spikes, kept)
        L1 == [L EXCEPT !.platforms = kept, !.spikes = live,
                        !.retired_spikes = @ + Len(L.spikes) - Len(live),
                        !.gap_from = IF L.gap_to > L.gap_from THEN @ - ScrollDx ELSE @,
                        !.gap_to = IF L.gap_to > L.gap_from THEN @ - ScrollDx ELSE @]
    IN  Generate(L1, Max(RightEdge(kept, 1), 0))

\* LevelGen._init_start
RECURSIVE InitStart(_, _)
InitStartAppend(L, x, w, top, bot) ==
    InitStart(OnPlatformCreated(
                  OnPlatformCreated(
                      [bot.level EXCEPT
                          !.platforms = @ \o <<top.plat, bot.plat>>,
                          !.pairs = Append(@,
                              [top |-> top.plat.platform_type,
                               bot |-> bot.plat.platform_type,
                               counter |-> L.consecutive_moving,
                               forced |-> TRUE, safe |-> TRUE, in_gap |-> FALSE,
                               after_gap |-> FALSE,
                               counter_top |-> top.level.consecutive_moving,
                               counter_bot |-> bot.level.consecutive_moving])],
                      top.plat, TRUE),
                  bot.plat, TRUE),
              x + w)
InitStartAfterTop(L, x, w, top) ==
    InitStartAppend(L, x, w, top, CreatePlatform(top.level, x, "bot", w, TRUE))
InitStart(L, x) ==
    IF 2 * x < 3 * WIDTH
    THEN InitStartAfterTop(L, x, WIDTH \div 3,
                           CreatePlatform(L, x, "top", WIDTH \div 3, TRUE))
    ELSE L

\* LevelGen.__init__(seed): seed = NoSeed stands for None, and then the seed
\* is `entropy`, the value random.randrange draws from the process-wide
\* generator.
NoSeed == -1
ResolveSeedAlwaysDrawn(seed, entropy) == entropy
ResolveSeed(seed, entropy) == IF seed = NoSeed THEN entropy ELSE seed
LevelGen(seed, entropy) ==
    LET resolved == ResolveSeed(seed, entropy)
    IN  InitStart([seed |-> resolved, rng |-> RngSeed(resolved),
                   platforms |-> <<>>, spikes |-> <<>>,
                   consecutive_moving |-> 0, next_id |-> 0,
                   pairs |-> <<>>, gap_from |-> 0, gap_to |-> 0,
                   retired_spikes |-> 0], 0)

---------------------------------------------------------------------------
(* src/game/player.py: Player *)

\* int(self.y): truncation toward zero of a y in half pixels.
IntY(y) == IF y >= 0 THEN y \div 2 ELSE -((-y) \div 2)

\* resolve_collisions_with_platforms: tolerances and the contact buffer
\* (player.py 74-76), CONTACT_BUFFER_S = 0.08 s in 1/300 s.
HORIZONTAL_TOLERANCE == 2
VERTICAL_STICK_TOL == 3
CONTACT_BUFFER_S == 24

\* _standing_on_platform = None
NoPlatform == 0

\* Player(x, y = HEIGHT/2 - PLAYER_H/2, vy = 0, grav_dir = 1, grounded = False)
NewPlayer ==
    [y |-> HEIGHT - PLAYER_H, vy |-> 0, grav_dir |-> 1, grounded |-> FALSE,
     flip_cooldown |-> 0, standing_on_platform |-> NoPlatform,
     platform_contact_buffer |-> 0]

\* Player.can_flip
CanFlipIgnoringCooldown(P) == P.grounded \/ P.platform_contact_buffer > 0
CanFlip(P) ==
    P.flip_cooldown <= 0 /\ (P.grounded \/ P.platform_contact_buffer > 0)

\* A flip that keeps the supporting platform and its grace timer.
TryFlipKeepingPlatform(P) ==
    IF CanFlip(P)
    THEN [P EXCEPT !.grav_dir = -@, !.flip_cooldown = JUMP_COOLDOWN_S, !.vy = 0,
                   !.grounded = FALSE]
    ELSE P

\* Player.try_flip
TryFlip(P) ==
    IF CanFlip(P)
    THEN [P EXCEPT !.grav_dir = -@, !.flip_cooldown = JUMP_COOLDOWN_S, !.vy = 0,
                   !.grounded = FALSE, !.standing_on_platform = NoPlatform,
                   !.platform_contact_buffer = 0]
    ELSE P

\* Player.update_physics(dt)
UpdatePhysics(P) ==
    LET cd == IF P.flip_cooldown > 0 THEN Max(0, P.flip_cooldown - Dt)
                                     ELSE P.flip_cooldown
        v == Max(-MaxVk, Min(MaxVk, P.vy + P.grav_dir))
        buf == IF P.platform_contact_buffer > 0
               THEN Max(0, P.platform_contact_buffer - Dt)
               ELSE P.platform_contact_buffer
    IN  [P EXCEPT !.flip_cooldown = cd, !.vy = v, !.y = @ + v,
                  !.platform_contact_buffer = buf]

\* check_rect: the player's rectangle shrunk by HORIZONTAL_TOLERANCE per side.
CheckLeft == (PLAYER_X - PLAYER_W \div 2) + HORIZONTAL_TOLERANCE
CheckRight == (PLAYER_X - PLAYER_W \div 2) + PLAYER_W - HORIZONTAL_TOLERANCE
HorizontalOverlap(p) == ~(CheckRight <= Left(p) \/ CheckLeft >= Right(p))

\* getattr(plat, "last_dy", 0): Platform has no field last_dy and
\* update_movement sets none, so the default is what the resolver reads.
LastDy(p) == 0

\* Step 0 of the resolver (player.py 93-117): keep the contact with the
\* platform the player stands on.  [player, new_grounded].
MaintainContact(P, platforms) ==
    LET found == SelectSeq(platforms, LAMBDA q : q.id = P.standing_on_platform)
    IN  IF P.standing_on_platform = NoPlatform
           \/ ~(P.platform_contact_buffer > 0)
           \/ Len(found) = 0
        THEN [player |-> P, new_grounded |-> FALSE]
        ELSE LET plat == found[1]
                 top == IntY(P.y)
                 near == IF P.grav_dir > 0
                         THEN Abs((top + PLAYER_H) - Top(plat)) <= VERTICAL_STICK_TOL
                         ELSE Abs(top - Bottom(plat)) <= VERTICAL_STICK_TOL
                 stuck == HorizontalOverlap(plat) /\ near
                 P1 == IF stuck THEN [P EXCEPT !.y = @ + 2 * LastDy(plat)] ELSE P
             IN  [player |->
                    IF stuck /\ plat.platform_type = "moving"
                    THEN [P1 EXCEPT !.platform_contact_buffer =
                                        Max(@, CONTACT_BUFFER_S \div 2)]
                    ELSE P1,
                  new_grounded |-> stuck]

\* The crossing test with the touching case left out.
IsCrossingStrict(P, plat) ==
    LET top == IntY(P.y)
    IN  IF P.grav_dir > 0
        THEN top + PLAYER_H > Top(plat) /\ top < Top(plat) /\ P.vy >= 0
        ELSE top < Bottom(plat) /\ top + PLAYER_H > Bottom(plat) /\ P.vy <= 0

\* is_crossing_top / is_crossing_bottom for one platform (player.py 128-155).
IsCrossing(P, plat) ==
    LET top == IntY(P.y)
    IN  IF P.grav_dir > 0
        THEN top + PLAYER_H >= Top(plat) /\ top < Top(plat) /\ P.vy >= 0
        ELSE top <= Bottom(plat) /\ top + PLAYER_H > Bottom(plat) /\ P.vy <= 0

\* The player snapped onto `plat` (player.py 136-147, 157-168, 172-177).
Land(P, plat) ==
    LET y0 == IF P.grav_dir > 0 THEN 2 * (Top(plat) - PLAYER_H) ELSE 2 * Bottom(plat)
        moving == plat.platform_type = "moving"
    IN  [P EXCEPT !.y = IF moving THEN y0 + 2 * LastDy(plat) ELSE y0,
                  !.vy = 0,
                  !.standing_on_platform = plat.id,
                  !.platform_contact_buffer = IF moving THEN CONTACT_BUFFER_S ELSE 0]

\* Step 1 of the resolver (player.py 120-168): the first platform, in list
\* order, whose facing surface the player crosses.  [player, new_grounded].
RECURSIVE FreshSweep(_, _, _)
FreshSweep(P, platforms, i) ==
    IF i > Len(platforms) THEN [player |-> P, new_grounded |-> FALSE]
    ELSE IF HorizontalOverlap(platforms[i]) /\ IsCrossing(P, platforms[i])
         THEN [player |-> Land(P, platforms[i]), new_grounded |-> TRUE]
         ELSE FreshSweep(P, platforms, i + 1)

\* The sweep runs only when the stick step did not ground the player.
SweepUnlessStuck(kept, platforms) ==
    IF kept.new_grounded THEN kept ELSE FreshSweep(kept.player, platforms, 1)

\* Final flags that never drop the supporting platform.
SetGroundedKeepingReference(r) == [r.player EXCEPT !.grounded = r.new_grounded]

\* The flags set at the end of the resolver (player.py 170-183).
SetGrounded(r) ==
    [(IF ~r.new_grounded /\ r.player.platform_contact_buffer <= 0
      THEN [r.player EXCEPT !.standing_on_platform = NoPlatform]
      ELSE r.player) EXCEPT !.grounded = r.new_grounded]

\* Player.resolve_collisions_with_platforms(platforms)
ResolveCollisionsWithPlatforms(P, platforms) ==
    SetGrounded(SweepUnlessStuck(MaintainContact(P, platforms), platforms))

---------------------------------------------------------------------------
(* src/game/level.py: Spike geometry and the rectangle/triangle test *)

\* The platform a spike is attached to (Spike.platform); spikes of retired
\* platforms are dropped in the same tick, so the parent is in the list.
ParentOf(sp, platforms) ==
    SelectSeq(platforms, LAMBDA q : q.id = sp.platform)[1]

\* Spike.world_points: <<A, B, C>>, points as <<x, y>>.
WorldPoints(sp, platforms) ==
    LET plat == ParentOf(sp, platforms)
        cx == Left(plat) + sp.local_x
        half == SPIKE_BASE \div 2
        y_base == IF sp.lane = "bot" THEN Top(plat) ELSE Bottom(plat)
        tip == IF sp.lane = "bot" THEN y_base - SPIKE_HEIGHT ELSE y_base + SPIKE_HEIGHT
    IN  <<(<<cx - half, y_base>>), (<<cx + half, y_base>>), (<<cx, tip>>)>>

\* Rectangles as [left, top, right, bottom].
\* Spike.aabb
Aabb(tri) ==
    [left |-> Min(tri[1][1], Min(tri[2][1], tri[3][1])),
     top |-> Min(tri[1][2], Min(tri[2][2], tri[3][2])),
     right |-> Max(tri[1][1], Max(tri[2][1], tri[3][1])),
     bottom |-> Max(tri[1][2], Max(tri[2][2], tri[3][2]))]

\* pygame.Rect.colliderect and collidepoint
CollideRect(a, b) ==
    /\ a.right > a.left /\ a.bottom > a.top /\ b.right > b.left /\ b.bottom > b.top
    /\ a.left < b.right /\ a.right > b.left /\ a.top < b.bottom /\ a.bottom > b.top
CollidePoint(r, p) ==
    r.left <= p[1] /\ p[1] < r.right /\ r.top <= p[2] /\ p[2] < r.bottom

Dot(u, v) == u[1] * v[1] + u[2] * v[2]
Cross(u, v) == u[1] * v[2] - u[2] * v[1]
Sub(u, v) == <<u[1] - v[1], u[2] - v[2]>>

\* _point_in_triangle: u = nu/denom, v = nv/denom with denom >= 0, so the
\* three sign tests are tests on the numerators.
PointInTriangle(p, a, b, c) ==
    LET v0 == Sub(c, a)
        v1 == Sub(b, a)
        v2 == Sub(p, a)
        denom == Dot(v0, v0) * Dot(v1, v1) - Dot(v0, v1) * Dot(v0, v1)
        nu == Dot(v1, v1) * Dot(v0, v2) - Dot(v0, v1) * Dot(v1, v2)
        nv == Dot(v0, v0) * Dot(v1, v2) - Dot(v0, v1) * Dot(v0, v2)
    IN  nu >= 0 /\ nv >= 0 /\ nu + nv <= denom

\* segs_intersect (level.py 96-104)
SegsIntersect(p1, p2, p3, p4) ==
    LET r == Sub(p2, p1)
        s == Sub(p4, p3)
        denom == Cross(r, s)
        t == Cross(Sub(p3, p1), s)
        upar == Cross(Sub(p3, p1), r)
    IN  /\ denom # 0
        /\ IF denom > 0
           THEN 0 <= t /\ t <= denom /\ 0 <= upar /\ upar <= denom
           ELSE 0 >= t /\ t >= denom /\ 0 >= upar /\ upar >= denom

\* rect_intersects_triangle (gg_env_v2.py imports it under the name
\* rect_intersects_triangle_strict).
RectIntersectsTriangle(r, tri) ==
    LET corners == <<(<<r.left, r.top>>), (<<r.right, r.top>>),
                     (<<r.right, r.bottom>>), (<<r.left, r.bottom>>)>>
    IN  \/ \E i \in 1..4 : PointInTriangle(corners[i], tri[1], tri[2], tri[3])
        \/ \E i \in 1..3 : CollidePoint(r, tri[i])
        \/ \E i \in 1..3 : \E j \in 1..4 :
              SegsIntersect(tri[i], tri[(i % 3) + 1], corners[j], corners[(j % 4) + 1])

---------------------------------------------------------------------------
(* src/env/observation_v2.py *)

\* Denominators of the observation's fields: obs[1] is y / (HEIGHT - PLAYER_H)
\* with y in half pixels, obs[2] is vy / MAX_VY in units of VyUnit, surface
\* values are y / HEIGHT.
ObsYDen == 2 * Max(1, HEIGHT - PLAYER_H)
ObsVyDen == MaxVk
ObsSurfDen == HEIGHT

PROBE_OFFSETS_V2 == <<120, 240, 360>>
SPIKE_WINDOW_PX == Max(16, SPIKE_BASE \div 2)

\* _clamp01 of the fraction n/d: the numerator of the result.
Clamp01Identity(n, d) == n
Clamp01(n, d) == IF n < 0 THEN 0 ELSE IF n > d THEN d ELSE n

\* _norm_top_y
NormTopY(y) == Clamp01(y, ObsYDen)
\* _norm_vy
NormVy(vy) == Max(-MaxVk, Min(vy, MaxVk))

\* _surfaces_at_x: <<ceil_y, floor_y>>, NoSurface for None.
NoSurface == -1000000
SurfacesAtX(platforms, x) ==
    LET cover == {i \in 1..Len(platforms) :
                     Left(platforms[i]) <= x /\ x < Right(platforms[i])}
        centery(p) == p.y + PLATFORM_THICKNESS \div 2
        tops == {i \in cover : 2 * centery(platforms[i]) < HEIGHT}
        bots == cover \ tops
        ceil_y == IF tops = {} THEN NoSurface
                  ELSE CHOOSE y \in {Bottom(platforms[i]) : i \in tops} :
                          \A i \in tops : y <= Bottom(platforms[i])
        floor_y == IF bots = {} THEN NoSurface
                   ELSE CHOOSE y \in {Top(platforms[i]) : i \in bots} :
                           \A i \in bots : y >= Top(platforms[i])
    IN  <<ceil_y, floor_y>>

\* _spike_presence_near_x: <<has_top, has_bot>>
SpikePresenceNearX(spikes, platforms, x) ==
    LET near(lane) ==
            \E i \in 1..Len(spikes) :
               /\ spikes[i].lane = lane
               /\ Abs(Left(ParentOf(spikes[i], platforms)) + spikes[i].local_x - x)
                     <= SPIKE_WINDOW_PX
    IN  <<IF near("top") THEN 1 ELSE 0, IF near("bot") THEN 1 ELSE 0>>

\* The four features of one probe: ceil, floor, spikeTop, spikeBot.
ProbeFeatures(platforms, spikes, px) ==
    LET surf == SurfacesAtX(platforms, px)
        flags == SpikePresenceNearX(spikes, platforms, px)
    IN  << IF surf[1] = NoSurface THEN 0 ELSE Clamp01(surf[1], ObsSurfDen),
           IF surf[2] = NoSurface THEN ObsSurfDen ELSE Clamp01(surf[2], ObsSurfDen),
           flags[1], flags[2] >>

\* build_observation_v2: the 15 features, as numerators.
BuildObservationV2(player, platforms, spikes) ==
    << NormTopY(player.y), NormVy(player.vy),
       IF player.grav_dir > 0 THEN 1 ELSE -1 >>
    \o ProbeFeatures(platforms, spikes, PLAYER_X + PROBE_OFFSETS_V2[1])
    \o ProbeFeatures(platforms, spikes, PLAYER_X + PROBE_OFFSETS_V2[2])
    \o ProbeFeatures(platforms, spikes, PLAYER_X + PROBE_OFFSETS_V2[3])

---------------------------------------------------------------------------
(* src/env/gg_env_v2.py: GGEnv *)

\* self.time_limit_decisions = int(sim_fps * time_limit_seconds / frame_skip)
time_limit_decisions == (SIM_FPS * TimeLimitSeconds) \div FrameSkip

\* The step calls the model makes between two resets.
MaxDecisions == time_limit_decisions + ExtraDecisions

\* ceil(JUMP_COOLDOWN_S / dt): the ticks update_physics takes to bring the
\* cooldown timer from JUMP_COOLDOWN_S down to 0 (player.py 50-51).
CooldownTicks == (JUMP_COOLDOWN_S + Dt - 1) \div Dt

\* The count of sub-steps since the last successful flip saturates here, which
\* is also its value while the episode has had no flip.
SinceFlipCap == CooldownTicks + FrameSkip

\* What reset and step return, with the facts about the call the claims are
\* stated on: the action, the state at the start of the call, the number of
\* sub-steps run, the sub-step in which a death was first detected, whether
\* the call flipped gravity, the sub-steps run since the last flip of the
\* episode before and after the call, the actor as try_flip left it when
\* the call flipped gravity, and the number of step calls that have returned
\* since the last reset.
NoReturn ==
    [call |-> "none", obs |-> <<>>, reward |-> 0, terminated |-> FALSE,
     truncated |-> FALSE, grounded |-> FALSE, death_cause |-> "none",
     action |-> 0, alive_before |-> FALSE, grounded_before |-> FALSE,
     cooldown_before |-> 0, buffer_before |-> 0, grav_before |-> 0,
     distance_before |-> 0, substeps |-> 0, died_at |-> 0,
     flipped |-> FALSE, since_flip_before |-> 0, since_flip |-> 0,
     after_flip |-> NewPlayer, steps |-> 0]

\* GGEnv.__init__: level and player are None until reset.
EmptyLevel ==
    [seed |-> 0, rng |-> 0, platforms |-> <<>>, spikes |-> <<>>,
     consecutive_moving |-> 0, next_id |-> 0, pairs |-> <<>>,
     gap_from |-> 0, gap_to |-> 0, retired_spikes |-> 0]
\* Facts about the sub-steps of the current call, for the claims stated per
\* sub-step: the number of sub-steps the resolver ended not grounded, and
\* whether in some sub-step the actor's leading edge went from the near side
\* of a surface to it or past it and the resolver left the actor's rectangle
\* elsewhere than on that surface; whether in some sub-step the actor was
\* held on an oscillating platform that moved in the tick and was not shifted
\* by the platform's displacement; whether in some sub-step the
\* rectangle/triangle test was true of a live spike and _check_spike_death
\* returned False, and whether in some sub-step it returned True with the
\* test true of no live spike; whether some sub-step ended with a supporting
\* platform recorded and the grace timer at 0, and whether some sub-step
\* ended so with the actor not grounded or the recorded platform not a static
\* one; whether some sub-step ended with the actor grounded and its vertical
\* velocity not 0.
NoSubFacts ==
    [airborne |-> 0, off_surface |-> FALSE, unridden |-> FALSE,
     hazard_missed |-> FALSE, hazard_spurious |-> FALSE,
     assoc_no_grace |-> FALSE, assoc_loose |-> FALSE,
     grounded_in_motion |-> FALSE]

NewEnv ==
    [ready |-> FALSE, level |-> EmptyLevel, player |-> NewPlayer, alive |-> TRUE,
     death_cause |-> "none", distance_px |-> 0, timestep |-> 0,
     current_seed |-> NoSeed, negative_rewards |-> 0, ret |-> NoReturn,
     sub |-> NoSubFacts]

\* GGEnv._player_rect
PlayerRect(P) ==
    [left |-> PLAYER_X - PLAYER_W \div 2, top |-> IntY(P.y),
     right |-> PLAYER_X - PLAYER_W \div 2 + PLAYER_W, bottom |-> IntY(P.y) + PLAYER_H]

\* GGEnv._check_spike_death
CheckSpikeDeath(E) ==
    \E i \in 1..Len(E.level.spikes) :
        LET tri == WorldPoints(E.level.spikes[i], E.level.platforms)
        IN  /\ CollideRect(Aabb(tri), PlayerRect(E.player))
            /\ RectIntersectsTriangle(PlayerRect(E.player), tri)

\* rect_intersects_triangle of the actor's rectangle against every live spike,
\* without the bounding-box test.
ExactSpikeHit(E) ==
    \E i \in 1..Len(E.level.spikes) :
        RectIntersectsTriangle(PlayerRect(E.player),
                               WorldPoints(E.level.spikes[i], E.level.platforms))

\* GGEnv._out_of_bounds
OutOfBounds(E) == E.player.y < 2 * (-80) \/ E.player.y > 2 * (HEIGHT + 80)

\* GGEnv._get_obs
GetObs(E) == BuildObservationV2(E.player, E.level.platforms, E.level.spikes)

\* The death checks and the distance update that end a pass of the loop
\* (gg_env_v2.py 133-142): [env, died].
DeathChecked(E1, spike, oob) ==
    [env |-> [(IF spike THEN [E1 EXCEPT !.alive = FALSE, !.death_cause = "spike"]
               ELSE IF oob THEN [E1 EXCEPT !.alive = FALSE, !.death_cause = "oob"]
               ELSE E1) EXCEPT !.distance_px = @ + DistPerTick],
     died |-> spike \/ oob]
DeathChecks(E1, spike) == DeathChecked(E1, spike, ~spike /\ OutOfBounds(E1))

\* The player's physics and collisions against the level after its tick
\* (gg_env_v2.py 129-131).
\* Some platform q, q0 before the tick, overlaps the player's check rectangle
\* (player.py 82-90), had the leading edge of the player's rectangle on its
\* near side before the tick (P0 = E.player), has it at or past its facing
\* surface after the integration (P1), and the resolver left the rectangle
\* (P2) elsewhere than on that surface.
OffSurface(E, L1, P1, P2) ==
    \E i \in 1..Len(L1.platforms) :
        /\ HorizontalOverlap(L1.platforms[i])
        /\ IF P1.grav_dir > 0
           THEN /\ IntY(P1.y) + PLAYER_H >= Top(L1.platforms[i])
                /\ IntY(P2.y) # Top(L1.platforms[i]) - PLAYER_H
           ELSE /\ IntY(P1.y) <= Bottom(L1.platforms[i])
                /\ IntY(P2.y) # Bottom(L1.platforms[i])
        /\ \E j \in 1..Len(E.level.platforms) :
               /\ E.level.platforms[j].id = L1.platforms[i].id
               /\ IF P1.grav_dir > 0
                  THEN IntY(E.player.y) + PLAYER_H <= Top(E.level.platforms[j])
                  ELSE IntY(E.player.y) >= Bottom(E.level.platforms[j])

\* The stick step (player.py 93-117) held the player (P1 after integration,
\* P2 after the resolver) on the oscillating platform it stands on, the
\* platform's y changed in this tick, and the player's y was not shifted by
\* that displacement.
Unridden(E, L1, P1, P2) ==
    /\ P1.standing_on_platform # NoPlatform
    /\ P1.platform_contact_buffer > 0
    /\ MaintainContact(P1, L1.platforms).new_grounded
    /\ \E i \in 1..Len(L1.platforms) :
           /\ L1.platforms[i].id = P1.standing_on_platform
           /\ L1.platforms[i].platform_type = "moving"
           /\ \E j \in 1..Len(E.level.platforms) :
                  /\ E.level.platforms[j].id = P1.standing_on_platform
                  /\ L1.platforms[i].y # E.level.platforms[j].y
                  /\ P2.y # P1.y + 2 * (L1.platforms[i].y - E.level.platforms[j].y)
SubFacts(E, L1, P2) ==
    [airborne |-> E.sub.airborne + (IF P2.grounded THEN 0 ELSE 1),
     off_surface |-> E.sub.off_surface
                     \/ OffSurface(E, L1, UpdatePhysics(E.player), P2),
     unridden |-> E.sub.unridden
                  \/ Unridden(E, L1, UpdatePhysics(E.player), P2),
     hazard_missed |-> E.sub.hazard_missed
                       \/ (/\ ExactSpikeHit([level |-> L1, player |-> P2])
                           /\ ~CheckSpikeDeath([level |-> L1, player |-> P2])),
     hazard_spurious |-> E.sub.hazard_spurious
                         \/ (/\ CheckSpikeDeath([level |-> L1, player |-> P2])
                             /\ ~ExactSpikeHit([level |-> L1, player |-> P2])),
     assoc_no_grace |-> E.sub.assoc_no_grace
                        \/ (/\ P2.standing_on_platform # NoPlatform
                            /\ P2.platform_contact_buffer <= 0),
     assoc_loose |-> E.sub.assoc_loose
                     \/ (/\ P2.standing_on_platform # NoPlatform
                         /\ P2.platform_contact_buffer <= 0
                         /\ ~(/\ P2.grounded
                              /\ \E i \in 1..Len(L1.platforms) :
                                     /\ L1.platforms[i].id = P2.standing_on_platform
                                     /\ L1.platforms[i].platform_type = "static")),
     grounded_in_motion |-> E.sub.grounded_in_motion
                            \/ (P2.grounded /\ P2.vy # 0)]
Moved(E, L1, P2) ==
    [E EXCEPT !.level = L1, !.player = P2, !.sub = SubFacts(E, L1, P2)]
MovePlayer(E, L1) ==
    Moved(E, L1, ResolveCollisionsWithPlatforms(UpdatePhysics(E.player),
                                                L1.platforms))
CheckDeaths(E1) == DeathChecks(E1, CheckSpikeDeath(E1))

\* One pass of the loop body of step (gg_env_v2.py 126-142): the level tick,
\* the player's physics and collisions, the death checks, the distance.
\* [env, died].
SubStep(E) == CheckDeaths(MovePlayer(E, UpdateAndGenerate(E.level)))

\* The same loop without its break on death.
RECURSIVE SubStepLoopNoBreak(_, _)
KeepDeathPass(r, rest, i) == [rest EXCEPT !.died_at = IF r.died THEN i ELSE @]
RunOnAfter(r, i) == KeepDeathPass(r, SubStepLoopNoBreak(r.env, i + 1), i)
SubStepLoopNoBreak(E, i) ==
    IF i > FrameSkip THEN [env |-> E, substeps |-> i - 1, died_at |-> 0]
    ELSE RunOnAfter(SubStep(E), i)

\* The loop of step (gg_env_v2.py 125-145), from its i-th pass on:
\* [env, substeps, died_at]; died_at = 0 when no pass detected a death.
RECURSIVE SubStepLoop(_, _)
BreakOrContinue(r, i) ==
    IF r.died THEN [env |-> r.env, substeps |-> i, died_at |-> i]
    ELSE SubStepLoop(r.env, i + 1)
SubStepLoop(E, i) ==
    IF i > FrameSkip THEN [env |-> E, substeps |-> i - 1, died_at |-> 0]
    ELSE BreakOrContinue(SubStep(E), i)

\* The observation returned by reset (gg_env_v2.py 108-111), with the ghost
\* record of the session the call was made on.
ResetReturn(E, E1) ==
    [E1 EXCEPT !.ret = [NoReturn EXCEPT !.call = "reset", !.obs = GetObs(E1),
                                        !.alive_before = E.alive,
                                        !.grounded_before = E.player.grounded,
                                        !.grav_before = E.player.grav_dir,
                                        !.since_flip = SinceFlipCap]]

\* A reset that keeps the actor of the previous episode.
ResetWithKeepingPlayer(E, L) ==
    ResetReturn(E, [E EXCEPT !.ready = TRUE, !.level = L,
                             !.alive = TRUE, !.death_cause = "none", !.distance_px = 0,
                             !.timestep = 0, !.current_seed = L.seed,
                             !.negative_rewards = 0, !.sub = NoSubFacts])
\* The assignments of reset (gg_env_v2.py 87-106) once the level is built.
ResetWith(E, L) ==
    ResetReturn(E, [E EXCEPT !.ready = TRUE, !.level = L, !.player = NewPlayer,
                             !.alive = TRUE, !.death_cause = "none", !.distance_px = 0,
                             !.timestep = 0, !.current_seed = L.seed,
                             !.negative_rewards = 0, !.sub = NoSubFacts])

\* GGEnv.reset(seed): seed = NoSeed stands for reset() without a seed.
ResetEnv(E, seed, entropy) == ResetWith(E, LevelGen(seed, entropy))

\* A limit that is reached one decision late.
TruncatedStrictly(timestep) == timestep > time_limit_decisions

\* truncated (gg_env_v2.py 152-155), time_limit_decisions not being None.
Truncated(timestep) == timestep >= time_limit_decisions

\* The tuple step returns and the ghost record of the call.
StepReturn(E, action, run, E2) ==
    [E2 EXCEPT !.ret =
        [call |-> "step", obs |-> GetObs(E2),
         reward |-> IF E2.alive THEN 1 ELSE -1,
         terminated |-> ~E2.alive,
         truncated |-> Truncated(E2.timestep),
         grounded |-> E2.player.grounded, death_cause |-> E2.death_cause,
         action |-> action, alive_before |-> E.alive,
         grounded_before |-> E.player.grounded,
         cooldown_before |-> E.player.flip_cooldown,
         buffer_before |-> E.player.platform_contact_buffer,
         grav_before |-> E.player.grav_dir,
         distance_before |-> E.distance_px,
         substeps |-> run.substeps, died_at |-> run.died_at,
         flipped |-> action = 1 /\ E.alive /\ CanFlip(E.player),
         since_flip_before |-> E.ret.since_flip,
         since_flip |-> IF action = 1 /\ E.alive /\ CanFlip(E.player)
                        THEN run.substeps
                        ELSE Min(SinceFlipCap, E.ret.since_flip + run.substeps),
         after_flip |-> IF action = 1 /\ E.alive /\ CanFlip(E.player)
                        THEN TryFlip(E.player) ELSE NewPlayer,
         steps |-> E.ret.steps + 1]]

\* The reward, the decision counter and the flags (gg_env_v2.py 147-155).
StepAfterLoop(E, action, run) ==
    StepReturn(E, action, run,
               [run.env EXCEPT !.timestep = @ + 1,
                               !.negative_rewards =
                                   IF run.env.alive THEN @ ELSE @ + 1])

\* GGEnv.step(action), action in {0, 1}, after a reset.
StepEnv(E, action) ==
    StepAfterLoop(E, action,
        SubStepLoop([E EXCEPT !.player = IF action = 1 /\ E.alive
                                         THEN TryFlip(E.player) ELSE E.player,
                              !.sub = NoSubFacts], 1))

\* action_space.contains(action) for Discrete(2) (gg_env_v2.py 114).
ValidActionAny(a) == TRUE
ValidAction(a) == a \in {0, 1}

\* The AssertionError raised by the two asserts that open step: nothing is
\* returned and nothing is assigned.
Rejected(E, action) ==
    [E EXCEPT !.ret = [NoReturn EXCEPT !.call = "error", !.action = action,
                                       !.since_flip = E.ret.since_flip,
                                       !.steps = E.ret.steps]]

\* GGEnv.step(action) for any action, before or after a reset: the asserts
\* (gg_env_v2.py 114-115), then the step proper.
StepCall(E, action) ==
    IF ~ValidAction(action) \/ ~E.ready THEN Rejected(E, action)
    ELSE StepEnv(E, action)

\* What a caller sees of a call: (observation, reward, terminated, truncated).
Returned(E) ==
    [obs |-> E.ret.obs, reward |-> E.ret.reward, terminated |-> E.ret.terminated,
     truncated |-> E.ret.truncated]

---------------------------------------------------------------------------
(* The environment under test: one session, any seed, any action *)

\* With one session under test a draw from the process-wide generator is any
\* value (the entropy of Reset) and the generator's state is not tracked.
Init ==
    /\ env = NewEnv
    /\ twin = NewEnv
    /\ pending = <<>>
    /\ agree = TRUE
    /\ process_rng = NoSeed
    /\ solo = [session |-> NewEnv, process_rng |-> NoSeed]

\* env.reset(seed=s) for a given seed, or env.reset() with the seed drawn.
Reset ==
    \E s \in Seeds \cup {NoSeed} : \E entropy \in Seeds :
        /\ env' = ResetEnv(env, s, entropy)
        /\ UNCHANGED <<twin, pending, agree, process_rng, solo>>

\* env.step(a)
Step ==
    \E a \in {0, 1} :
        /\ env.ready
        /\ env.timestep < MaxDecisions
        /\ env' = StepEnv(env, a)
        /\ UNCHANGED <<twin, pending, agree, process_rng, solo>>

Next == Reset \/ Step

Spec == Init /\ [][Next]_vars

----------------------------------------------------------------------------
(* Two sessions fed the same calls: the second replays what the first did *)

PairSeeds == {3}
PairEntropy == {3, 7}
PairDecisions == 75
MaxLag == 1

\* The first session is reset with an explicit seed; the call and what it
\* returned are queued for the second session.
PairReset ==
    \E s \in PairSeeds : \E entropy \in PairEntropy :
        /\ Len(pending) < MaxLag
        /\ env' = ResetEnv(env, s, entropy)
        /\ pending' = Append(pending, [call |-> "reset", seed |-> s, action |-> 0,
                                       out |-> Returned(env')])
        /\ UNCHANGED <<twin, agree, process_rng, solo>>

\* The first session takes a step.
PairStep ==
    \E a \in {0, 1} :
        /\ env.ready
        /\ env.timestep < PairDecisions
        /\ Len(pending) < MaxLag
        /\ env' = StepEnv(env, a)
        /\ pending' = Append(pending, [call |-> "step", seed |-> NoSeed, action |-> a,
                                       out |-> Returned(env')])
        /\ UNCHANGED <<twin, agree, process_rng, solo>>

\* The second session makes the oldest queued call, with its own source of
\* entropy, and its return is compared with the first session's.
TwinReplay ==
    \E entropy \in PairEntropy :
        /\ pending # <<>>
        /\ twin' = IF Head(pending).call = "reset"
                   THEN ResetEnv(twin, Head(pending).seed, entropy)
                   ELSE StepEnv(twin, Head(pending).action)
        /\ agree' = (agree /\ Returned(twin') = Head(pending).out)
        /\ pending' = Tail(pending)
        /\ UNCHANGED <<env, process_rng, solo>>

NextPair == PairReset \/ PairStep \/ TwinReplay

SpecPair == Init /\ [][NextPair]_vars

----------------------------------------------------------------------------
(* Properties *)

SpikeFlagIndices == {6, 7, 10, 11, 14, 15}

\* C1: two sessions reset with the same explicit seed and given the same
\* action sequence return the same (observation, reward, terminated,
\* truncated) at every call: every replayed call agreed, and when the second
\* session has caught up the two last returns are equal.
C1_Determinism ==
    /\ agree
    /\ (pending = <<>> /\ env.ready) => Returned(twin) = Returned(env)

\* C1 case: both sessions are past the start corridor, the randomly generated
\* content (a spike) has reached a probe, and the second has caught up.
C1_Witness ==
    /\ pending = <<>>
    /\ twin.ret.call = "step"
    /\ twin.timestep >= 60
    /\ \E i \in SpikeFlagIndices : twin.ret.obs[i] = 1
    /\ Returned(twin) = Returned(env)

\* What step must leave alone once the actor is dead.
Physics(E) ==
    [platforms |-> E.level.platforms, spikes |-> E.level.spikes,
     rng |-> E.level.rng, y |-> E.player.y, vy |-> E.player.vy,
     grav_dir |-> E.player.grav_dir, grounded |-> E.player.grounded,
     flip_cooldown |-> E.player.flip_cooldown]

\* C2: once a step has ended with the actor dead, a further step before the
\* next reset leaves the physics state (actor position, velocity, gravity,
\* platforms, spikes, generator) unchanged.
C2_FrozenAfterDeath ==
    [][(env.ready /\ ~env.alive /\ env'.timestep = env.timestep + 1)
          => Physics(env') = Physics(env)]_vars

\* C3: at every step terminated and truncated are never both true, and
\* truncated is true only if the decision limit is reached and the actor is
\* alive at the end of the step.  Stated for the steps begun alive.
C3_FlagsExclusive ==
    (env.ret.call = "step" /\ env.ret.alive_before) =>
        /\ ~(env.ret.terminated /\ env.ret.truncated)
        /\ env.ret.truncated =>
               (env.timestep >= time_limit_decisions /\ env.alive)

\* C4: a step returns terminated = true exactly when a death (spike or out of
\* bounds) was detected in one of the sub-steps of that step.
C4_TerminatedIffDeathDetected ==
    env.ret.call = "step" => (env.ret.terminated <=> env.ret.died_at > 0)

\* C5: the reward is +1 on a step the actor ends alive and -1 only on the one
\* step in which the death is detected: between two resets at most one step
\* has a negative reward.
C5_SingleDeathPenalty ==
    /\ env.negative_rewards <= 1
    /\ env.ret.call = "step" =>
           /\ env.alive => env.ret.reward = 1
           /\ env.ret.reward = -1 => env.ret.died_at > 0

\* C6: a step's flip request reverses gravity iff, at the start of the step,
\* the actor is grounded and the flip cooldown is zero; no request, no
\* reversal.  Stated for the steps begun alive.
C6_FlipGating ==
    (env.ret.call = "step" /\ env.ret.alive_before) =>
        ((env.player.grav_dir # env.ret.grav_before)
            <=> (env.ret.action = 1 /\ env.ret.grounded_before
                    /\ env.ret.cooldown_before = 0))

\* C7: a step runs FrameSkip fixed-dt sub-steps and stops right after the
\* sub-step in which a death is detected; the distance grows by the executed
\* sub-steps times scrollSpeed * dt, so an actor still alive after n steps has
\* covered n * FrameSkip * scrollSpeed * dt.
C7_SubStepBatching ==
    env.ret.call = "step" =>
        /\ env.ret.died_at = 0 => env.ret.substeps = FrameSkip
        /\ env.ret.died_at > 0 => env.ret.substeps = env.ret.died_at
        /\ env.ret.substeps \in 1..FrameSkip
        /\ env.distance_px = env.ret.distance_before + env.ret.substeps * DistPerTick
        /\ env.alive => env.distance_px = env.timestep * FrameSkip * DistPerTick

\* C7 case: a step begun alive whose death was detected before its last
\* sub-step, so the remaining sub-steps were not run.
C7_Witness ==
    /\ env.ret.call = "step"
    /\ env.ret.alive_before
    /\ env.ret.died_at > 0
    /\ env.ret.died_at < FrameSkip
    /\ env.ret.substeps = env.ret.died_at

\* C8: every observation returned by reset or step has its position in
\* [0, 1], its velocity in [-1, 1], its gravity in {-1, +1}, each probe
\* surface in [0, 1] and each spike flag in {0, 1} (numerators over ObsYDen,
\* ObsVyDen, 1 and ObsSurfDen).
C8_ObservationBounds ==
    env.ret.call \in {"reset", "step"} =>
        /\ Len(env.ret.obs) = 3 + 4 * Len(PROBE_OFFSETS_V2)
        /\ env.ret.obs[1] \in 0..ObsYDen
        /\ env.ret.obs[2] \in (-ObsVyDen)..ObsVyDen
        /\ env.ret.obs[3] \in {-1, 1}
        /\ \A k \in 1..Len(PROBE_OFFSETS_V2) :
              /\ env.ret.obs[4 * k] \in 0..ObsSurfDen
              /\ env.ret.obs[4 * k + 1] \in 0..ObsSurfDen
              /\ env.ret.obs[4 * k + 2] \in {0, 1}
              /\ env.ret.obs[4 * k + 3] \in {0, 1}

\* C8 case: the actor has left the screen, where the raw position is outside
\* the normalisation range, and the step returned an observation.
C8_Witness ==
    /\ env.ret.call = "step"
    /\ env.player.y < 0 \/ env.player.y > ObsYDen
    /\ env.ret.obs[1] = (IF env.player.y < 0 THEN 0 ELSE ObsYDen)

HasMoving(e) == e.top = "moving" \/ e.bot = "moving"
BothMoving(e) == e.top = "moving" /\ e.bot = "moving"

\* C9: no generated flat-pair has both lanes oscillating when the
\* immediately preceding generated flat-pair had an oscillating lane.
C9_StaticAfterMoving ==
    \A i \in 2..Len(env.level.pairs) :
        HasMoving(env.level.pairs[i - 1]) => ~BothMoving(env.level.pairs[i])

----------------------------------------------------------------------------
(* One session called with any action, also before its first reset *)

ActionInputs == {0, 1, 2}
CallDecisions == 40

\* env.step(a) for a valid or an invalid a, on a session reset or not.
StepAny ==
    \E a \in ActionInputs :
        /\ env.timestep < CallDecisions
        /\ env' = StepCall(env, a)
        /\ UNCHANGED <<twin, pending, agree, process_rng, solo>>

NextCalls == Reset \/ StepAny

SpecCalls == Init /\ [][NextCalls]_vars

\* The fields of a session (the ghost record of the last call left out).
Session(E) ==
    [ready |-> E.ready, level |-> E.level, player |-> E.player, alive |-> E.alive,
     death_cause |-> E.death_cause, distance_px |-> E.distance_px,
     timestep |-> E.timestep, current_seed |-> E.current_seed]

\* C11: a step call with an action outside {0, 1}, or made before any reset,
\* raises an error and leaves every field of the session (level, actor,
\* alive flag, death cause, distance, decision counter) as it was.
C11_InvalidInputRejected ==
    [][(env'.ret.call # "reset" /\ (env'.ret.action \notin {0, 1} \/ ~env.ready))
          => (env'.ret.call = "error" /\ Session(env') = Session(env))]_vars

\* C11 case: an invalid action was rejected in the middle of an episode.
C11_Witness ==
    /\ env.ret.call = "error"
    /\ env.ret.action \notin {0, 1}
    /\ env.ready
    /\ env.timestep > 0
    /\ env.alive

\* reset(seed = S) on a freshly constructed session.
FreshReset(S) == ResetEnv(NewEnv, S, S)

\* C12: a reset puts the session into the state, and returns the observation,
\* of the same reset on a freshly constructed session, whatever the session
\* was before the call (never reset, mid-episode, terminated, truncated): the
\* level built from the seed, the actor at spawn height with vy 0, gravity +1,
\* not grounded, cooldown 0, alive, no death cause, distance 0, decision
\* counter 0.
C12_ResetIsFresh ==
    env.ret.call = "reset" =>
        /\ Session(env) = Session(FreshReset(env.current_seed))
        /\ env.ret.obs = FreshReset(env.current_seed).ret.obs
        /\ env.player = NewPlayer
        /\ env.alive /\ env.death_cause = "none"
        /\ env.distance_px = 0 /\ env.timestep = 0

\* C12 case: the reset came after a termination in which the actor had
\* flipped gravity.
C12_Witness ==
    /\ env.ret.call = "reset"
    /\ ~env.ret.alive_before
    /\ env.ret.grav_before = -1

----------------------------------------------------------------------------
(* Two sessions in one process, their calls interleaved *)

\* The generator of the random module, shared by everything in the process:
\* a stand-in whose state is the value it returns next and whose stream
\* cycles through Seeds.
ProcessRandRange(s) ==
    [value |-> s,
     next |-> IF \E t \in Seeds : t > s
              THEN CHOOSE t \in Seeds : t > s /\ \A u \in Seeds : u > s => t <= u
              ELSE CHOOSE t \in Seeds : \A u \in Seeds : t <= u]

\* The state of the process generator after LevelGen(seed): one value is
\* consumed when the seed is None (level.py 124-125).
ProcessAfterLevelGen(seed, s) ==
    IF seed = NoSeed THEN ProcessRandRange(s).next ELSE s

IsoDecisionsA == 1
IsoDecisionsB == 3

\* The process starts with its generator seeded from the system's entropy;
\* solo is the second session in a process of its own that started in the
\* same state and runs no other session.
InitIsolation ==
    /\ env = NewEnv
    /\ twin = NewEnv
    /\ pending = <<>>
    /\ agree = TRUE
    /\ process_rng \in Seeds
    /\ solo = [session |-> NewEnv, process_rng |-> process_rng]

\* A.reset(seed=s) or A.reset()
IsoResetA ==
    \E s \in PairSeeds \cup {NoSeed} :
        /\ env' = ResetEnv(env, s, ProcessRandRange(process_rng).value)
        /\ process_rng' = ProcessAfterLevelGen(s, process_rng)
        /\ UNCHANGED <<twin, pending, agree, solo>>

\* A.step(a)
IsoStepA ==
    \E a \in {0, 1} :
        /\ env.ready
        /\ env.timestep < IsoDecisionsA
        /\ env' = StepEnv(env, a)
        /\ UNCHANGED <<twin, pending, agree, process_rng, solo>>

\* B.reset(seed=s) or B.reset(), here and in the process where B runs alone.
IsoResetB ==
    \E s \in PairSeeds \cup {NoSeed} :
        /\ twin' = ResetEnv(twin, s, ProcessRandRange(process_rng).value)
        /\ process_rng' = ProcessAfterLevelGen(s, process_rng)
        /\ solo' = [session |-> ResetEnv(solo.session, s,
                                         ProcessRandRange(solo.process_rng).value),
                    process_rng |-> ProcessAfterLevelGen(s, solo.process_rng)]
        /\ UNCHANGED <<env, pending, agree>>

\* B.step(a), here and in the process where B runs alone.
IsoStepB ==
    \E a \in {0, 1} :
        /\ twin.ready
        /\ twin.timestep < IsoDecisionsB
        /\ twin' = StepEnv(twin, a)
        /\ solo' = [solo EXCEPT !.session = StepEnv(solo.session, a)]
        /\ UNCHANGED <<env, pending, agree, process_rng>>

NextIsolation == IsoResetA \/ IsoStepA \/ IsoResetB \/ IsoStepB

SpecIsolation == InitIsolation /\ [][NextIsolation]_vars

\* C13: under any interleaving of reset and step calls on two sessions, the
\* second session is in the state, and has returned what, it would have had
\* it run alone in the process.
C13_SessionIsolation ==
    /\ Session(twin) = Session(solo.session)
    /\ Returned(twin) = Returned(solo.session)

\* C14: a step(1) issued while the flip cooldown is positive is a no-op step
\* (gravity sign, vertical velocity, grounded flag and cooldown timer evolve as
\* under step(0)), and a successful flip comes at least
\* ceil(JUMP_COOLDOWN_S / dt) sub-steps after the previous successful flip of
\* the episode.
C14_Cooldown ==
    [][env'.ret.call = "step" =>
          /\ (env'.ret.action = 1 /\ env.player.flip_cooldown > 0)
                 => (~env'.ret.flipped /\ Session(env') = Session(StepEnv(env, 0)))
          /\ env'.ret.flipped => env.ret.since_flip >= CooldownTicks]_vars

\* C14 case: a second flip of the episode, made as soon as the cooldown of
\* the first allowed it.
C14_Witness ==
    /\ env.ret.call = "step" /\ env.ret.flipped
    /\ env.ret.since_flip_before < SinceFlipCap

----------------------------------------------------------------------------
(* One session, reset once with any seed, then no-op decisions only *)

NoopSeeds == 0..13
NoopDecisions == 150

NoopReset ==
    \E s \in NoopSeeds :
        /\ ~env.ready
        /\ env' = ResetEnv(env, s, s)
        /\ UNCHANGED <<twin, pending, agree, process_rng, solo>>

NoopStep ==
    /\ env.ready
    /\ env.timestep < NoopDecisions
    /\ env' = StepEnv(env, 0)
    /\ UNCHANGED <<twin, pending, agree, process_rng, solo>>

NextNoop == NoopReset \/ NoopStep

SpecNoop == Init /\ [][NextNoop]_vars

\* The platforms _init_start creates: ids 1..CorridorIds, two per WIDTH // 3
\* of the first 1.5 * WIDTH pixels.
CorridorIds == 2 * ((3 * WIDTH + 2 * (WIDTH \div 3) - 1) \div (2 * (WIDTH \div 3)))

\* The actor's collision rectangle overlaps, horizontally, start-corridor
\* platforms only.
OnCorridor(E) ==
    \A i \in 1..Len(E.level.platforms) :
        (Left(E.level.platforms[i]) < PlayerRect(E.player).right
         /\ Right(E.level.platforms[i]) > PlayerRect(E.player).left)
            => E.level.platforms[i].id <= CorridorIds

\* The ticks of free fall from the spawn height to the bottom lane's surface.
FallTicks ==
    CHOOSE n \in 1..HEIGHT :
        /\ n * (n + 1) >= 2 * (2 * (LANE_BOT_Y - PLAYER_H) - NewPlayer.y)
        /\ (n - 1) * n < 2 * (2 * (LANE_BOT_Y - PLAYER_H) - NewPlayer.y)

\* C15: under no-op decisions from reset, for every seed, while the actor's
\* rectangle overlaps start-corridor platforms only: the actor is alive; once
\* FallTicks sub-steps have run it is grounded on a static bottom-lane platform
\* of the corridor; and from then on it is grounded at the end of every
\* sub-step.
C15_GroundsOnCorridor ==
    (env.ret.call = "step" /\ OnCorridor(env)) =>
        /\ env.alive
        /\ env.timestep * FrameSkip >= FallTicks =>
              /\ env.player.grounded
              /\ env.player.y = 2 * (LANE_BOT_Y - PLAYER_H)
              /\ \E i \in 1..Len(env.level.platforms) :
                    /\ env.level.platforms[i].id = env.player.standing_on_platform
                    /\ env.level.platforms[i].id <= CorridorIds
                    /\ env.level.platforms[i].lane = "bot"
                    /\ env.level.platforms[i].platform_type = "static"
        /\ (env.timestep - 1) * FrameSkip >= FallTicks => env.sub.airborne = 0

\* C15 case: the actor has fallen, landed and ridden the corridor to its last
\* platform.
C15_Witness ==
    /\ env.ret.call = "step" /\ OnCorridor(env)
    /\ env.ret.action = 0
    /\ env.player.grounded /\ env.sub.airborne = 0
    /\ env.player.standing_on_platform = CorridorIds
    /\ env.distance_px > 6 * WIDTH

\* C16: in no sub-step does the actor's leading edge go from the near side of
\* a horizontally overlapping platform's facing surface to that surface or
\* beyond and the resolver leave the actor anywhere but on that surface.
C16_NoTunneling == env.ret.call = "step" => ~env.sub.off_surface

\* C17: no flat-pair is created with its left edge inside the stretch
\* [x, x + w) of a gap the generator drew at frontier x.
C17_GapAdvancesFrontier ==
    \A i \in 1..Len(env.level.pairs) : ~env.level.pairs[i].in_gap

\* C18: over a step, every platform that is live before and after it has
\* moved left by the distance the session's counter gained (distance_px is
\* kept in sixths of a pixel).
C18_ScrollMatchesDistance ==
    [][env'.ret.call = "step" =>
          \A i \in 1..Len(env.level.platforms) :
              \A j \in 1..Len(env'.level.platforms) :
                  env.level.platforms[i].id = env'.level.platforms[j].id =>
                      6 * (env.level.platforms[i].x - env'.level.platforms[j].x)
                          = env'.distance_px - env.distance_px]_vars

\* C19: in every sub-step in which the actor is held on an oscillating
\* platform, the actor's y is shifted by the vertical displacement the
\* platform underwent in that tick.
C19_RidesPlatform == env.ret.call = "step" => ~env.sub.unridden

----------------------------------------------------------------------------
(* The level generator alone: built from any seed, then ticked *)

LevelSeeds == 0..39
LevelPlatforms == 60

\* LevelGen(s)
LevelNew ==
    \E s \in LevelSeeds :
        /\ env.current_seed = NoSeed
        /\ env' = [env EXCEPT !.level = LevelGen(s, s), !.current_seed = s]
        /\ UNCHANGED <<twin, pending, agree, process_rng, solo>>

\* level.update_and_generate(dt)
LevelTick ==
    /\ env.current_seed # NoSeed
    /\ env.level.next_id < LevelPlatforms
    /\ env' = [env EXCEPT !.level = UpdateAndGenerate(env.level)]
    /\ UNCHANGED <<twin, pending, agree, process_rng, solo>>

NextLevel == LevelNew \/ LevelTick

SpecLevel == Init /\ [][NextLevel]_vars

\* The platforms of two flat-pairs created one after the other, in creation
\* order (top before bottom), hold three oscillating platforms in a row.
ThreeInARow(a, b) ==
    \/ a.bot = "moving" /\ BothMoving(b)
    \/ BothMoving(a) /\ b.top = "moving"

\* consecutive_moving at the start of a flat-pair and after each of its two
\* platforms is created.
CounterInRange(p) ==
    {p.counter, p.counter_top, p.counter_bot} \subseteq {0, 1, 2}

---------------------------------------------------------------------------
(* C21: hazard death is exact and complete *)

\* C21: in every sub-step a spike death is declared if and only if the
\* rectangle/triangle test is true of the actor's rectangle and some live
\* spike: no sub-step of a step call had the test true with no spike death
\* declared, and none had a spike death declared with the test false.
C21_HazardDeathExact ==
    env.ret.call = "step" =>
        ~env.sub.hazard_missed /\ ~env.sub.hazard_spurious

---------------------------------------------------------------------------
(* C22: oscillation envelope *)

\* C22: every oscillating platform stays within move_range of its anchor y,
\* with move_range <= MOVING_PLATFORM_RANGE; the underside of every top-lane
\* platform is above the top side of every bottom-lane platform by more than
\* PLAYER_H; and no platform reaches the band of the opposite lane, the rows
\* its platforms and an actor standing on them occupy at rest.
C22_OscillationEnvelope ==
    LET P == env.level.platforms
    IN  /\ \A i \in 1..Len(P) :
               /\ P[i].move_range <= MOVING_PLATFORM_RANGE
               /\ P[i].original_y - P[i].move_range <= P[i].y
               /\ P[i].y <= P[i].original_y + P[i].move_range
               /\ P[i].platform_type = "static" => P[i].y = P[i].original_y
               /\ IF P[i].lane = "top"
                  THEN Bottom(P[i]) < LANE_BOT_Y - PLAYER_H
                  ELSE Top(P[i]) > LANE_TOP_Y + PLAYER_H
        /\ \A i \in 1..Len(P) : \A j \in 1..Len(P) :
               P[i].lane = "top" /\ P[j].lane = "bot"
                   => Top(P[j]) - Bottom(P[i]) > PLAYER_H

\* An oscillating top-lane platform at the lower end of its travel and an
\* oscillating bottom-lane platform at the upper end of its travel are live
\* together.
C22_Witness ==
    LET P == env.level.platforms
    IN  \E i \in 1..Len(P) : \E j \in 1..Len(P) :
            /\ P[i].lane = "top" /\ P[i].platform_type = "moving"
            /\ P[i].y >= P[i].original_y + P[i].move_range - 1
            /\ P[j].lane = "bot" /\ P[j].platform_type = "moving"
            /\ P[j].y = P[j].original_y - P[j].move_range

---------------------------------------------------------------------------
(* C23: the initial safe corridor *)

\* C23: every live platform created by the level's construction (ids
\* 1..CorridorIds) is static, and every live spike is attached to a platform
\* created by runtime generation, so no construction platform ever carries a
\* spike.
C23_SafeCorridor ==
    /\ \A i \in 1..Len(env.level.platforms) :
           env.level.platforms[i].id <= CorridorIds
               => env.level.platforms[i].platform_type = "static"
    /\ \A k \in 1..Len(env.level.spikes) :
           env.level.spikes[k].platform > CorridorIds

\* Spikes exist while one of the last four construction platforms, those
\* that reach past the screen's right edge when created, is still live.
C23_Witness ==
    /\ Len(env.level.spikes) > 0
    /\ \E i \in 1..Len(env.level.platforms) :
           /\ env.level.platforms[i].id <= CorridorIds
           /\ Right(env.level.platforms[i]) > 0
           /\ env.level.platforms[i].id > CorridorIds - 4

---------------------------------------------------------------------------
(* C24: a spike lives as long as its parent platform *)

\* C24: after every tick of the level each live spike's parent is a live
\* platform, and a spike that was live before the tick is live after it if
\* and only if its parent is: it is dropped in the tick that retires its
\* parent and in no other.
C24_SpikesFollowParent ==
    [][env.current_seed # NoSeed /\ env'.current_seed = env.current_seed =>
          /\ \A k \in 1..Len(env'.level.spikes) :
                 \E i \in 1..Len(env'.level.platforms) :
                     env'.level.platforms[i].id = env'.level.spikes[k].platform
          /\ \A k \in 1..Len(env.level.spikes) :
                 (\E j \in 1..Len(env'.level.spikes) :
                      env'.level.spikes[j] = env.level.spikes[k])
                 <=> (\E i \in 1..Len(env'.level.platforms) :
                          env'.level.platforms[i].id = env.level.spikes[k].platform)
    ]_vars

\* The clean-up has dropped spikes, and other spikes are live, one of them
\* on a platform whose lane partner, which has the same x-range, is live too.
C24_Witness ==
    /\ env.level.retired_spikes > 0
    /\ \E k \in 1..Len(env.level.spikes) :
           \E i, j \in 1..Len(env.level.platforms) :
               /\ env.level.platforms[i].id = env.level.spikes[k].platform
               /\ env.level.platforms[j].id # env.level.platforms[i].id
               /\ env.level.platforms[j].x = env.level.platforms[i].x
               /\ env.level.platforms[j].w = env.level.platforms[i].w

---------------------------------------------------------------------------
(* C25: spacing of the spikes of one platform *)

\* C25: the base centres of any two distinct spikes attached to the same
\* platform are at least SPIKE_BASE + SPIKE_MIN_SPACING apart.
C25_SpikeSpacing ==
    \A k \in 1..Len(env.level.spikes) : \A l \in 1..Len(env.level.spikes) :
        k # l /\ env.level.spikes[k].platform = env.level.spikes[l].platform
            => Abs(env.level.spikes[k].local_x - env.level.spikes[l].local_x)
                   >= SPIKE_BASE + SPIKE_MIN_SPACING

\* A platform carries three spikes, two of them less than twice the minimum
\* distance apart.
C25_Witness ==
    \E k, l, m \in 1..Len(env.level.spikes) :
        /\ k # l /\ l # m /\ k # m
        /\ env.level.spikes[k].platform = env.level.spikes[l].platform
        /\ env.level.spikes[l].platform = env.level.spikes[m].platform
        /\ Abs(env.level.spikes[k].local_x - env.level.spikes[l].local_x)
               < 2 * (SPIKE_BASE + SPIKE_MIN_SPACING)

---------------------------------------------------------------------------
(* C26: what a successful flip does *)

\* C26: when a step call flips gravity, try_flip leaves the actor with the
\* gravity sign inverted, vertical velocity 0, the grounded flag cleared, no
\* supporting platform, the grace timer at 0 and the cooldown timer at
\* JUMP_COOLDOWN_S.
C26_FlipEffect ==
    env.ret.call = "step" /\ env.ret.flipped =>
        /\ env.ret.after_flip.grav_dir = -env.ret.grav_before
        /\ env.ret.after_flip.vy = 0
        /\ ~env.ret.after_flip.grounded
        /\ env.ret.after_flip.standing_on_platform = NoPlatform
        /\ env.ret.after_flip.platform_contact_buffer = 0
        /\ env.ret.after_flip.flip_cooldown = JUMP_COOLDOWN_S

\* A flip from inverted gravity while the grace timer of a supporting
\* platform was running.
C26_Witness ==
    /\ env.ret.call = "step" /\ env.ret.flipped
    /\ env.ret.grav_before = -1
    /\ env.ret.buffer_before > 0
    /\ env.ret.grounded_before

---------------------------------------------------------------------------
(* C27: the supporting-platform association and its grace timer *)

\* C27: after every sub-step, a recorded supporting platform implies a
\* strictly positive grace timer.
C27_AssociationHasGrace ==
    env.ret.call = "step" => ~env.sub.assoc_no_grace

\* C27, amended: after every sub-step, a supporting platform recorded with
\* the grace timer at 0 is a static platform the actor is grounded on; a
\* platform recorded while the actor is not grounded, and an oscillating
\* platform recorded at any time, has a strictly positive grace timer.
C27_AssociationLooseOnlyOnStatic ==
    env.ret.call = "step" => ~env.sub.assoc_loose

\* After a step the actor is not grounded and still has a supporting platform
\* recorded, its grace timer running.
C27_Witness ==
    /\ env.ret.call = "step"
    /\ ~env.player.grounded
    /\ env.player.standing_on_platform # NoPlatform
    /\ env.player.platform_contact_buffer > 0

---------------------------------------------------------------------------
(* C28: grounded implies at rest *)

\* C28: after every sub-step, if the actor is grounded then its vertical
\* velocity is 0, whether the grounding is a fresh landing or the stick step
\* holding the actor on its supporting platform.
C28_GroundedAtRest ==
    env.ret.call = "step" => ~env.sub.grounded_in_motion

---------------------------------------------------------------------------
(* C29: the terminal cause is stable *)

\* C29: once a step has set the death cause, every later step of the episode
\* leaves the session not alive and reports the same death cause.
C29_TerminalCauseStable ==
    [][(/\ env.ret.call = "step" /\ ~env.alive
        /\ env.death_cause \in {"spike", "oob"}
        /\ env'.ret.call = "step")
           => /\ ~env'.alive
              /\ env'.death_cause = env.death_cause
              /\ env'.ret.death_cause = env.ret.death_cause]_vars

---------------------------------------------------------------------------
(* C30: bounded episodes *)

\* C30: the step that is the time_limit_decisions-th since the last reset,
\* and every later one, returns terminated or truncated, so an episode
\* signals its end no later than its time_limit_decisions-th step.
C30_BoundedEpisodes ==
    env.ret.call = "step" /\ env.ret.steps >= time_limit_decisions
        => env.ret.terminated \/ env.ret.truncated

\* The time_limit_decisions-th step of an episode returns with the actor
\* alive, after an episode in which gravity was flipped.
C30_Witness ==
    /\ env.ret.call = "step"
    /\ env.ret.steps = time_limit_decisions
    /\ env.alive /\ ~env.ret.terminated /\ env.ret.truncated
    /\ env.ret.since_flip < SinceFlipCap
====
